---- MODULE Spec2Model ----
(***************************************************************************)
(* A model of the treap of src/src/node.rs (Node) and src/src/map.rs       *)
(* (TreapMap).  Option<T> is a sequence of length at most one: None is     *)
(* <<>> and Some(x) is <<x>>.  A Box<Node> is the node record itself.      *)
(* A key is a record [ord, rep]: Ord::cmp looks at ord only, so two keys   *)
(* may compare Equal and still differ in representation (rep).             *)
(***************************************************************************)
EXTENDS Integers, Sequences, FiniteSets, TLC

\* ---- bounds ----
MaxKey == 3
MaxRep == 1
MaxVal == 1
MaxPrio == 2
RotKeys == 5
RotData == 1

Ords == 1..MaxKey
Reps == 0..MaxRep
Keys == [ord : Ords, rep : Reps]
Vals == 0..MaxVal
Prios == 0..MaxPrio

\* root, len : the fields of TreapMap (src/src/map.rs:5-8).
\* ret         : the Option<V> the last TreapMap::insert returned.
\* last        : the arguments of the last insert, with the priority drawn.
\* rots        : the number of rotations the last insert performed.
\* hist        : for each key order, the value of the most recent insert.
\* entries     : the entries inserted so far (SpecDistinct only).
\* rot         : input, output and kind of a single rotation (SpecRot only).
VARIABLES root, len, ret, last, rots, hist, entries, rot

vars == <<root, len, ret, last, rots, hist, entries, rot>>

None == <<>>
Some(x) == <<x>>

\* ---- Ord for keys ----
cmp(a, b) ==
  IF a.ord < b.ord THEN "Less"
  ELSE IF a.ord = b.ord THEN "Equal"
  ELSE "Greater"

\* ---- Node ----
NodeNew(key, val, priority) ==
  [key |-> key, val |-> val, left |-> None, right |-> None, priority |-> priority]

RECURSIVE NodeGet(_, _)
\* NodeGet with the Less arm descending into the right child
NodeGetWrongSide(self, key) ==
  CASE cmp(key, self.key) = "Equal" -> Some(self.val)
    [] cmp(key, self.key) = "Less" ->
         IF self.right # None THEN NodeGet(self.right[1], key) ELSE None
    [] cmp(key, self.key) = "Greater" ->
         IF self.right # None THEN NodeGet(self.right[1], key) ELSE None

NodeGet(self, key) ==
  CASE cmp(key, self.key) = "Equal" -> Some(self.val)
    [] cmp(key, self.key) = "Less" ->
         IF self.left # None THEN NodeGet(self.left[1], key) ELSE None
    [] cmp(key, self.key) = "Greater" ->
         IF self.right # None THEN NodeGet(self.right[1], key) ELSE None

\* is_heap_property_violated with the comparison the wrong way round
heap_check_reversed(self, subtree) ==
  IF subtree # None THEN self.priority > subtree[1].priority ELSE FALSE

is_heap_property_violated(self, subtree) ==
  IF subtree # None THEN self.priority < subtree[1].priority ELSE FALSE

\* rotate_right with the old root's children put back on the wrong sides
rotate_right_swapped(self) ==
  LET x0 == self.left
      s0 == [self EXCEPT !.left = None]
  IN IF x0 # None
     THEN LET s1 == x0[1]
              x2 == [s0 EXCEPT !.left = s0.right, !.right = s1.right]
          IN [s1 EXCEPT !.right = Some(x2)]
     ELSE s0

\* let x = self.left.take(); then, when x is Some: swap(self, x);
\* swap(self.right, x.left); self.right = Some(x).
rotate_right(self) ==
  LET x0 == self.left
      s0 == [self EXCEPT !.left = None]
  IN IF x0 # None
     THEN LET s1 == x0[1]
              x1 == s0
              s2 == [s1 EXCEPT !.right = x1.left]
              x2 == [x1 EXCEPT !.left = s1.right]
          IN [s2 EXCEPT !.right = Some(x2)]
     ELSE s0

\* rotate_left without swap(self.left, x.right): the middle subtree is lost
rotate_left_drops_middle(self) ==
  LET x0 == self.right
      s0 == [self EXCEPT !.right = None]
  IN IF x0 # None
     THEN [x0[1] EXCEPT !.left = Some(s0)]
     ELSE s0

\* rotate_left that leaves the node as it is
rotate_left_noop(self) == self

rotate_left(self) ==
  LET x0 == self.right
      s0 == [self EXCEPT !.right = None]
  IN IF x0 # None
     THEN LET s1 == x0[1]
              x1 == s0
              s2 == [s1 EXCEPT !.left = x1.right]
              x2 == [x1 EXCEPT !.right = s1.left]
          IN [s2 EXCEPT !.left = Some(x2)]
     ELSE s0

\* InsertEqual that keeps the stored value
InsertEqualKeepsValue(self, val, priority) ==
  LET s1 == IF self.priority < priority
            THEN [self EXCEPT !.priority = priority]
            ELSE self
  IN [node |-> s1, old |-> Some(self.val), rots |-> 0]

\* InsertEqual that returns the value it has just stored
InsertEqualReturnsNew(self, val, priority) ==
  LET s1 == IF self.priority < priority
            THEN [self EXCEPT !.priority = priority]
            ELSE self
  IN [node |-> [s1 EXCEPT !.val = val], old |-> Some(val), rots |-> 0]

\* InsertEqual that always takes the incoming priority
InsertEqualOverwritesPriority(self, val, priority) ==
  [node |-> [self EXCEPT !.priority = priority, !.val = val],
   old |-> Some(self.val), rots |-> 0]

\* Node::insert, Ordering::Equal: raise the priority, keep the key, replace
\* the value and return the old one.
InsertEqual(self, val, priority) ==
  LET s1 == IF self.priority < priority
            THEN [self EXCEPT !.priority = priority]
            ELSE self
  IN [node |-> [s1 EXCEPT !.val = val], old |-> Some(self.val), rots |-> 0]

\* Node::insert: the result is the node as it is left in its storage slot
\* (node), the returned Option<V> (old) and the number of rotations done.
RECURSIVE NodeInsert(_, _, _, _)
NodeInsert(self, key, val, priority) ==
  CASE cmp(key, self.key) = "Equal" -> InsertEqual(self, val, priority)
    [] cmp(key, self.key) = "Less" ->
         LET r  == IF self.left # None
                   THEN NodeInsert(self.left[1], key, val, priority)
                   ELSE [node |-> NodeNew(key, val, priority), old |-> None,
                         rots |-> 0]
             s1 == [self EXCEPT !.left = Some(r.node)]
         IN IF is_heap_property_violated(s1, s1.left)
            THEN [node |-> rotate_right(s1), old |-> r.old, rots |-> r.rots + 1]
            ELSE [node |-> s1, old |-> r.old, rots |-> r.rots]
    [] cmp(key, self.key) = "Greater" ->
         LET r  == IF self.right # None
                   THEN NodeInsert(self.right[1], key, val, priority)
                   ELSE [node |-> NodeNew(key, val, priority), old |-> None,
                         rots |-> 0]
             s1 == [self EXCEPT !.right = Some(r.node)]
         IN IF is_heap_property_violated(s1, s1.right)
            THEN [node |-> rotate_left(s1), old |-> r.old, rots |-> r.rots + 1]
            ELSE [node |-> s1, old |-> r.old, rots |-> r.rots]

\* ---- TreapMap ----
MapGet(r, key) == IF r # None THEN NodeGet(r[1], key) ELSE None

\* LenAfter that counts every insert
LenAfterAlways(n, res) == n + 1

\* LenAfter that counts the replacements instead of the new keys
LenAfterInverted(n, res) == IF res # None THEN n + 1 ELSE n

\* if res.is_none() { self.len += 1 }
LenAfter(n, res) == IF res = None THEN n + 1 ELSE n

\* TreapMap::insert with the priority that rand::random() drew.
MapInsert(key, val, priority) ==
  /\ IF root # None
     THEN LET res == NodeInsert(root[1], key, val, priority)
          IN /\ root' = Some(res.node)
             /\ len' = LenAfter(len, res.old)
             /\ ret' = res.old
             /\ rots' = res.rots
     ELSE /\ root' = Some(NodeNew(key, val, priority))
          /\ len' = len + 1
          /\ ret' = None
          /\ rots' = 0
  /\ last' = Some([key |-> key, val |-> val, priority |-> priority])
  /\ hist' = [hist EXCEPT ![key.ord] = Some(val)]

NoRot == [in |-> None, out |-> None, op |-> "none"]

\* TreapMap::new
Init ==
  /\ root = None
  /\ len = 0
  /\ ret = None
  /\ last = None
  /\ rots = 0
  /\ hist = [o \in Ords |-> None]
  /\ entries = {}
  /\ rot = NoRot

\* insert(key, val) on a map in any reachable state.
Insert ==
  \E key \in Keys, val \in Vals, priority \in Prios :
    /\ MapInsert(key, val, priority)
    /\ UNCHANGED <<entries, rot>>

Next == Insert

Spec == Init /\ [][Next]_vars

\* ---- inserting entries with pairwise distinct keys and priorities ----
InsertFresh ==
  \E key \in Keys, val \in Vals, priority \in Prios :
    /\ \A e \in entries : e.key.ord # key.ord /\ e.priority # priority
    /\ MapInsert(key, val, priority)
    /\ entries' = entries \cup {[key |-> key, val |-> val, priority |-> priority]}
    /\ UNCHANGED rot

NextDistinct == InsertFresh

SpecDistinct == Init /\ [][NextDistinct]_vars

\* ---- a single rotation applied to any search tree ----
\* A node of a rotation's input; d is both its value and its priority, so
\* that nodes differ in every field.
RotNode(k, d, l, r) ==
  [key |-> [ord |-> k, rep |-> 0], val |-> d, left |-> l, right |-> r,
   priority |-> d]

\* every search tree (None included) over the key orders lo..hi
RECURSIVE RotTrees(_, _)
RotTrees(lo, hi) ==
  IF lo > hi THEN {None}
  ELSE {None} \cup
       UNION {LET L == RotTrees(lo, k - 1)
                  R == RotTrees(k + 1, hi)
              IN {Some(RotNode(k, d, l, r)) : d \in 0..RotData, l \in L, r \in R} :
              k \in lo..hi}

InitRot ==
  /\ root = None
  /\ len = 0
  /\ ret = None
  /\ last = None
  /\ rots = 0
  /\ hist = [o \in Ords |-> None]
  /\ entries = {}
  /\ \E t \in RotTrees(1, RotKeys) :
       /\ t # None
       /\ rot = [in |-> t, out |-> None, op |-> "none"]

RotateRight ==
  /\ rot.op = "none"
  /\ rot' = [rot EXCEPT !.out = Some(rotate_right(rot.in[1])), !.op = "right"]
  /\ UNCHANGED <<root, len, ret, last, rots, hist, entries>>

RotateLeft ==
  /\ rot.op = "none"
  /\ rot' = [rot EXCEPT !.out = Some(rotate_left(rot.in[1])), !.op = "left"]
  /\ UNCHANGED <<root, len, ret, last, rots, hist, entries>>

NextRot == RotateRight \/ RotateLeft

SpecRot == InitRot /\ [][NextRot]_vars

\* ---- what the claims speak of ----
\* the set of node records of a tree
RECURSIVE Nodes(_)
Nodes(t) ==
  IF t = None THEN {}
  ELSE {t[1]} \cup Nodes(t[1].left) \cup Nodes(t[1].right)

RECURSIVE NodeCount(_)
NodeCount(t) ==
  IF t = None THEN 0 ELSE 1 + NodeCount(t[1].left) + NodeCount(t[1].right)

OrdsOf(t) == {n.key.ord : n \in Nodes(t)}

\* the node of t whose key has order o
Entry(t, o) == CHOOSE n \in Nodes(t) : n.key.ord = o

Inserted == {o \in Ords : hist[o] # None}

Max(a, b) == IF a < b THEN b ELSE a

IsBST(t) ==
  \A n \in Nodes(t) :
    /\ \A o \in OrdsOf(n.left) : o < n.key.ord
    /\ \A o \in OrdsOf(n.right) : n.key.ord < o

IsHeap(t) ==
  \A n \in Nodes(t) :
    /\ n.left # None => n.priority >= n.left[1].priority
    /\ n.right # None => n.priority >= n.right[1].priority

\* the tree with the entry of highest priority on top, the entries of smaller
\* keys built the same way on its left and those of greater keys on its right
RECURSIVE Canonical(_)
Canonical(E) ==
  IF E = {} THEN None
  ELSE LET top == CHOOSE e \in E : \A f \in E : f.priority <= e.priority
       IN Some([key |-> top.key, val |-> top.val, priority |-> top.priority,
                left |-> Canonical({e \in E : e.key.ord < top.key.ord}),
                right |-> Canonical({e \in E : e.key.ord > top.key.ord})])

\* C1: after any sequence of inserts, get(k) of every inserted key returns
\* the value passed by the most recent insert of k.
RoundTrip ==
  \A k \in Keys : hist[k.ord] # None => MapGet(root, k) = hist[k.ord]

\* a key below the root was inserted again with another value, and the insert
\* rotated
RoundTripSeen ==
  /\ ret # None /\ ret # Some(last[1].val)
  /\ len = 3 /\ rots >= 1

\* C2: insert(k, v) returns the value stored under k before the call when k
\* was present, and absent when it was not (empty map included).
InsertReturnsPrevious ==
  [][ret' = (IF last'[1].key.ord \in OrdsOf(root)
             THEN Some(Entry(root, last'[1].key.ord).val)
             ELSE None)]_vars

\* an insert of a present key returned its value after rotating twice on the
\* way up
InsertReturnsPreviousSeen ==
  /\ ret # None /\ rots = 2
  /\ root[1].key.ord = last[1].key.ord

\* C3: len is the number of nodes and the number of distinct keys inserted;
\* an insert of a present key leaves len alone, one of a new key adds one.
CountAccurate ==
  /\ [](len = NodeCount(root) /\ len = Cardinality(Inserted))
  /\ [][len' = (IF hist[last'[1].key.ord] # None THEN len ELSE len + 1)]_vars

\* three keys are stored and the last insert was of one already there
CountAccurateSeen ==
  /\ len = 3 /\ ret # None /\ NodeCount(root) = 3

\* C4: get(k) is present exactly when k was inserted; on a new map it is
\* absent for every key.
GetPresentIffInserted ==
  \A k \in Keys : (MapGet(root, k) # None) <=> (hist[k.ord] # None)

\* keys 1 and 3 are stored, key 2 between them is not, and get(2) is absent
GetPresentIffInsertedSeen ==
  /\ Inserted = {1, 3}
  /\ \A k \in Keys : k.ord = 2 => MapGet(root, k) = None

\* C5: every node's left subtree holds smaller keys only and its right
\* subtree greater keys only; no key is in the tree twice.
BSTInvariant ==
  /\ IsBST(root)
  /\ NodeCount(root) = Cardinality(OrdsOf(root))

\* a new key was inserted as third and rotated up twice to the root
BSTInvariantSeen ==
  /\ len = 3 /\ ret = None /\ rots = 2
  /\ root[1].left # None /\ root[1].right # None

\* C6: after every insert each node's priority is at least the priority of
\* each of its children.
HeapInvariant == IsHeap(root)

\* a present key was inserted again with a larger priority, which took it up
\* by a rotation, next to a child of the same priority as its parent
HeapInvariantSeen ==
  /\ ret # None /\ rots >= 1 /\ len = 3
  /\ \E n \in Nodes(root) :
       /\ n.key.ord = last[1].key.ord
       /\ n.priority = last[1].priority
  /\ \E n \in Nodes(root) :
       \/ n.left # None /\ n.left[1].priority = n.priority
       \/ n.right # None /\ n.right[1].priority = n.priority

\* C7: an insert of the (key, value) pair of the insert before it leaves
\* every get and len as they were and returns that value.
IdempotentReinsert ==
  [][(last # None /\ cmp(last'[1].key, last[1].key) = "Equal"
        /\ last'[1].val = last[1].val)
     => /\ \A k \in Keys : MapGet(root', k) = MapGet(root, k)
        /\ len' = len
        /\ ret' = Some(last[1].val)]_vars

\* an insert returned the very value it passed, for a key below the root of a
\* tree of three
IdempotentReinsertSeen ==
  /\ ret # None /\ ret = Some(last[1].val)
  /\ len = 3 /\ root[1].key.ord # last[1].key.ord

\* C8: rotate_right turns y(x(a, b), c) into x(a, y(b, c)) and rotate_left
\* turns y(a, x(b, c)) into x(y(a, b), c); every node keeps its key, value
\* and priority, and a, b, c are moved unchanged.
RotationCorrect ==
  /\ (rot.op = "right" /\ rot.in[1].left # None) =>
       LET y == rot.in[1]
           x == y.left[1]
       IN rot.out =
            Some([key |-> x.key, val |-> x.val, priority |-> x.priority,
                  left |-> x.left,
                  right |-> Some([key |-> y.key, val |-> y.val,
                                  priority |-> y.priority,
                                  left |-> x.right, right |-> y.right])])
  /\ (rot.op = "left" /\ rot.in[1].right # None) =>
       LET y == rot.in[1]
           x == y.right[1]
       IN rot.out =
            Some([key |-> x.key, val |-> x.val, priority |-> x.priority,
                  right |-> x.right,
                  left |-> Some([key |-> y.key, val |-> y.val,
                                 priority |-> y.priority,
                                 left |-> y.left, right |-> x.left])])

\* a right rotation of y(x(a, b), c) with a, b and c all present and x, y of
\* different value and priority
RotationCorrectSeen ==
  /\ rot.op = "right"
  /\ rot.in[1].left # None /\ rot.in[1].right # None
  /\ rot.in[1].left[1].left # None /\ rot.in[1].left[1].right # None
  /\ rot.in[1].left[1].priority # rot.in[1].priority
  /\ rot.out[1].key = rot.in[1].left[1].key

\* C9: an insert of a key equal to a stored one leaves the stored key as it
\* was, stores the incoming value and makes the priority the larger of the
\* stored and the incoming one; no node's priority ever decreases.
ReplaceInPlace ==
  [][LET before == Nodes(root)
         after == Nodes(root')
         call == last'[1]
     IN \A n \in before :
          \E m \in after :
            /\ m.key = n.key
            /\ m.priority >= n.priority
            /\ cmp(call.key, n.key) = "Equal" =>
                 /\ m.val = call.val
                 /\ m.priority = Max(n.priority, call.priority)]_vars

\* a key was inserted again in another representation and with a smaller
\* priority than the stored one
ReplaceInPlaceSeen ==
  /\ ret # None
  /\ LET n == Entry(root, last[1].key.ord)
     IN /\ n.key.rep # last[1].key.rep
        /\ n.priority > last[1].priority
        /\ n.val = last[1].val

\* C10: entries with pairwise distinct keys and priorities give, in whatever
\* order they are inserted, the one tree that has the entry of highest
\* priority on top and is built the same way on both sides.
ShapeOrderIndependent == root = Canonical(entries)

\* three entries are in, the last one inserted went to the top by two
\* rotations
ShapeOrderIndependentSeen ==
  /\ Cardinality(entries) = 3 /\ rots = 2
  /\ root[1].key = last[1].key

====
